---- MODULE Spec2Model ----
(***************************************************************************)
(* Model of tutorials/tutorial_utils.py: the NapistuConfig class           *)
(* (construction from a YAML file, artifact-path resolution, creation of   *)
(* artifact directories) and the Posit Connect deployment helpers.         *)
(*                                                                         *)
(* Text is modelled as a sequence of pieces.  Paths are sequences of       *)
(* single characters, so that os.path.join, os.path.dirname, expanduser    *)
(* and re.sub work on them as they do in Python.  An Optional value is a   *)
(* sequence of length 0 (None) or 1.  An ordered dict is a sequence of     *)
(* [k, v] records; a dict whose order is never observed is a function.     *)
(***************************************************************************)
EXTENDS Integers, Sequences, FiniteSets, TLC

VARIABLES dirs, files, env, obj, last

vars == <<dirs, files, env, obj, last>>

---------------------------------------------------------------------------
(* Bounds and inputs *)

\* longest related_workflows list passed to the constructor
MaxRelated == 2

WorkflowArgs == {"wfA", "wfB", "wfC", "wfX"}
RelatedArgs == {"wfB", "wfX"}

P_root == <<"/">>
P_home == <<"/", "h">>
P_cfgdir == <<"/", "c">>
P_tutorial == <<"/", "c", "/", "t">>
P_malformed == <<"/", "c", "/", "m">>
P_listdoc == <<"/", "c", "/", "l">>
P_partial == <<"/", "c", "/", "p">>
P_absent == <<"/", "c", "/", "n">>
P_data == <<"/", "h", "/", "d">>
P_species == <<"/", "h", "/", "d", "/", "H", "_", "s">>
P_w == <<"/", "h", "/", "d", "/", "H", "_", "s", "/", "w">>
P_r == <<"/", "h", "/", "d", "/", "r">>

ConfigPaths == {P_tutorial, P_malformed, P_listdoc, P_partial, P_absent}
ConfigFilesOnDisk == {P_tutorial, P_malformed, P_listdoc, P_partial}

None == <<>>
Some(x) == <<x>>

NoExc == [exc |-> "None", at |-> "return"]
Raise(e, where) == [exc |-> e, at |-> where]

---------------------------------------------------------------------------
(* Strings and paths *)

StartsWith(s, c) == Len(s) > 0 /\ s[1] = c

EndsWith(s, c) == Len(s) > 0 /\ s[Len(s)] = c

\* re.sub(old, new, s) for a one-character pattern
ReSub(old, new, s) == [i \in 1..Len(s) |-> IF s[i] = old THEN new ELSE s[i]]

\* str.rfind(c) + 1: the 1-based index of the last c, 0 when there is none
RFind(s, c) ==
  LET hits == {i \in 1..Len(s) : s[i] = c}
  IN IF hits = {} THEN 0 ELSE CHOOSE i \in hits : \A j \in hits : j <= i

\* str.find(c) + 1: the 1-based index of the first c, 0 when there is none
Find(s, c) ==
  LET hits == {i \in 1..Len(s) : s[i] = c}
  IN IF hits = {} THEN 0 ELSE CHOOSE i \in hits : \A j \in hits : i <= j

\* str.rstrip(c)
RStrip(s, c) ==
  LET keep == {i \in 1..Len(s) : s[i] # c}
  IN IF keep = {} THEN <<>>
     ELSE SubSeq(s, 1, CHOOSE i \in keep : \A j \in keep : j <= i)

\* posixpath.join(a, b)
OsPathJoin(a, b) ==
  IF StartsWith(b, "/") THEN b
  ELSE IF a = <<>> \/ EndsWith(a, "/") THEN a \o b
  ELSE a \o <<"/">> \o b

\* posixpath.dirname(p)
OsPathDirname(p) ==
  LET head == SubSeq(p, 1, RFind(p, "/"))
  IN IF head # <<>> /\ RStrip(head, "/") # <<>> THEN RStrip(head, "/") ELSE head

\* posixpath.expanduser(p) with HOME = P_home; a "~user" prefix names no
\* known user and is returned unchanged
OsPathExpanduser(p) ==
  IF ~StartsWith(p, "~") THEN p
  ELSE LET i == IF Find(p, "/") = 0 THEN Len(p) + 1 ELSE Find(p, "/")
       IN IF i # 2 THEN p
          ELSE LET full == RStrip(P_home, "/") \o SubSeq(p, i, Len(p))
               IN IF full = <<>> THEN <<"/">> ELSE full

---------------------------------------------------------------------------
(* Filesystem *)

\* the proper ancestors of an absolute path
Ancestors(p) ==
  {P_root} \cup {SubSeq(p, 1, i - 1) : i \in {j \in 2..Len(p) : p[j] = "/"}}

OsPathIsdir(d, p) == p \in d

OsPathIsfile(f, p) == p \in f

\* os.mkdir(p): the first ancestor that is not a directory decides between
\* ENOTDIR and ENOENT; an existing entry at p gives EEXIST
OsMkdir(d, f, p) ==
  LET bad == {a \in Ancestors(p) \ {p} : a \notin d}
  IN IF bad # {}
     THEN LET first == CHOOSE a \in bad : \A b \in bad : Len(a) <= Len(b)
          IN IF first \in f
             THEN [exc |-> Raise("NotADirectoryError", "mkdir"), dirs |-> d]
             ELSE [exc |-> Raise("FileNotFoundError", "mkdir"), dirs |-> d]
     ELSE IF p \in d \cup f
     THEN [exc |-> Raise("FileExistsError", "mkdir"), dirs |-> d]
     ELSE [exc |-> NoExc, dirs |-> d \cup {p}]

RECURSIVE PathMkdir(_, _, _, _, _)
\* pathlib.Path(p).mkdir(parents, exist_ok)
PathMkdir(d, f, p, parents, exist_ok) ==
  LET r == OsMkdir(d, f, p)
  IN IF r.exc = NoExc THEN r
     ELSE IF r.exc.exc = "FileNotFoundError"
     THEN IF ~parents \/ OsPathDirname(p) = p THEN r
          ELSE LET up == PathMkdir(d, f, OsPathDirname(p), TRUE, TRUE)
               IN IF up.exc # NoExc THEN up
                  ELSE PathMkdir(up.dirs, f, p, FALSE, exist_ok)
     ELSE IF ~exist_ok \/ ~OsPathIsdir(d, p) THEN r
     ELSE [exc |-> NoExc, dirs |-> d]

---------------------------------------------------------------------------
(* Configuration files on disk *)

WorkflowA ==
  [name |-> <<"a.qmd">>, title |-> <<"A">>, species_specific |-> TRUE,
   connect_id |-> None,
   artifacts |-> Some(<<[k |-> "a", v |-> <<"x", "/", "y">>],
                        [k |-> "b", v |-> <<"w", "/", "z">>]>>)]

WorkflowB ==
  [name |-> <<"b.qmd">>, title |-> <<"B">>, species_specific |-> FALSE,
   connect_id |-> Some(<<"id7">>),
   artifacts |-> Some(<<[k |-> "c", v |-> <<"r", "/", "q", "/", "s">>]>>)]

WorkflowC ==
  [name |-> <<"c.qmd">>, title |-> <<"C">>, species_specific |-> TRUE,
   connect_id |-> Some(<<"id9">>),
   artifacts |-> None]

TutorialDoc ==
  [global_vars |-> [data_dir |-> <<"~", "/", "d">>,
                    species |-> <<"H", " ", "s">>,
                    overwrite |-> FALSE],
   workflows |-> [wfA |-> WorkflowA, wfB |-> WorkflowB, wfC |-> WorkflowC]]

PartialDoc ==
  [global_vars |-> [data_dir |-> <<"~", "/", "d">>,
                    species |-> <<"H", " ", "s">>,
                    overwrite |-> FALSE]]

\* what the bytes of each configuration file are to the YAML parser
FileContent(path) ==
  CASE path = P_tutorial -> [yaml |-> "mapping", value |-> TutorialDoc]
    [] path = P_partial -> [yaml |-> "mapping", value |-> PartialDoc]
    [] path = P_listdoc -> [yaml |-> "sequence", value |-> <<>>]
    [] OTHER -> [yaml |-> "malformed", value |-> <<>>]

\* yaml.safe_load(stream)
YamlSafeLoad(content) ==
  IF content.yaml = "malformed"
  THEN [exc |-> Raise("YAMLError", "safe_load"), doc |-> content]
  ELSE [exc |-> NoExc, doc |-> content]

\* dict()
EmptyDict == [yaml |-> "mapping", value |-> <<>>]


---------------------------------------------------------------------------
(* Schema validation (pydantic models at the end of the file) *)

GlobalFields == {"data_dir", "species", "overwrite"}
WorkflowFields == {"name", "title", "species_specific", "connect_id", "artifacts"}
ServerFields == {"url", "pat_secret_name"}

HasFields(rec, fields) == fields \subseteq DOMAIN rec

Restrict(rec, fields) == [k \in fields |-> rec[k]]

\* _NapistuConfigGlobalValidator
NapistuConfigGlobalValidator(g) == HasFields(g, GlobalFields)

\* _NapistuConfigWorkflowValidator
NapistuConfigWorkflowValidator(w) == HasFields(w, WorkflowFields)

\* _NapistuConfigValidator(**config_raw).model_dump(): a non-mapping cannot
\* be unpacked with ** (TypeError); missing fields give ValidationError
NapistuConfigValidator(raw) ==
  IF raw.yaml # "mapping"
  THEN [exc |-> Raise("TypeError", "__init__"), value |-> <<>>]
  ELSE LET doc == raw.value
       IN IF /\ HasFields(doc, {"global_vars", "workflows"})
             /\ NapistuConfigGlobalValidator(doc.global_vars)
             /\ \A w \in DOMAIN doc.workflows :
                  NapistuConfigWorkflowValidator(doc.workflows[w])
          THEN [exc |-> NoExc,
                value |-> [global_vars |-> Restrict(doc.global_vars, GlobalFields),
                           workflows |-> [w \in DOMAIN doc.workflows |->
                              Restrict(doc.workflows[w], WorkflowFields)]]]
          ELSE [exc |-> Raise("ValidationError", "_NapistuConfigValidator"),
                value |-> <<>>]

\* _ConnectServerValidator
ConnectServerValidator(s) == HasFields(s, ServerFields)

\* _ConnectConfigValidator(config=...).model_dump()["config"]
ConnectConfigValidator(settings) ==
  IF \A n \in DOMAIN settings : ConnectServerValidator(settings[n])
  THEN [exc |-> NoExc,
        value |-> [n \in DOMAIN settings |-> Restrict(settings[n], ServerFields)]]
  ELSE [exc |-> Raise("ValidationError", "_ConnectConfigValidator"),
        value |-> <<>>]

---------------------------------------------------------------------------
(* NapistuConfig *)

\* NapistuConfig._read_config: a YAML error is logged and the empty dict
\* created before the read is returned
ReadConfig(f, config_path) ==
  IF ~OsPathIsfile(f, config_path)
  THEN [exc |-> Raise("FileNotFoundError", "_read_config"), config |-> EmptyDict]
  ELSE LET loaded == YamlSafeLoad(FileContent(config_path))
       IN IF loaded.exc # NoExc
          THEN [exc |-> NoExc, config |-> EmptyDict]
          ELSE [exc |-> NoExc, config |-> loaded.doc]

\* the dict comprehension at the end of _format_workflow_artifacts
JoinArtifacts(workflow_data_dir, artifacts) ==
  [i \in 1..Len(artifacts) |->
     [k |-> artifacts[i].k, v |-> OsPathJoin(workflow_data_dir, artifacts[i].v)]]

\* _format_workflow_artifacts joining every artifact against data_dir,
\* species-specific or not
FormatWorkflowArtifacts_DataDirOnly(self, workflow) ==
  LET available_workflows == DOMAIN self.config_dict.workflows
  IN IF workflow \notin available_workflows
     THEN [exc |-> Raise("ValueError", "_format_workflow_artifacts"),
           msg |-> [workflow |-> workflow, named |-> available_workflows],
           value |-> None]
     ELSE LET artifacts == self.config_dict.workflows[workflow].artifacts
          IN [exc |-> NoExc,
              msg |-> <<>>,
              value |-> IF artifacts = None THEN None
                        ELSE Some(JoinArtifacts(self.data_dir, artifacts[1]))]

\* _format_workflow_artifacts without the test that the workflow is named
\* in the configuration: an unknown workflow resolves to None
FormatWorkflowArtifacts_NoCheck(self, workflow) ==
  IF workflow \notin DOMAIN self.config_dict.workflows
  THEN [exc |-> NoExc, msg |-> <<>>, value |-> None]
  ELSE LET workflow_config == self.config_dict.workflows[workflow]
           artifacts == workflow_config.artifacts
           workflow_data_dir == IF workflow_config.species_specific
                                THEN self.species_data_dir
                                ELSE self.data_dir
       IN [exc |-> NoExc,
           msg |-> <<>>,
           value |-> IF artifacts = None THEN None
                     ELSE Some(JoinArtifacts(workflow_data_dir, artifacts[1]))]

\* NapistuConfig._format_workflow_artifacts
FormatWorkflowArtifacts(self, workflow) ==
  LET available_workflows == DOMAIN self.config_dict.workflows
  IN IF workflow \notin available_workflows
     THEN [exc |-> Raise("ValueError", "_format_workflow_artifacts"),
           msg |-> [workflow |-> workflow, named |-> available_workflows],
           value |-> None]
     ELSE LET workflow_config == self.config_dict.workflows[workflow]
              artifacts == workflow_config.artifacts
              workflow_data_dir == IF workflow_config.species_specific
                                   THEN self.species_data_dir
                                   ELSE self.data_dir
          IN [exc |-> NoExc,
              msg |-> <<>>,
              value |-> IF artifacts = None THEN None
                        ELSE Some(JoinArtifacts(workflow_data_dir, artifacts[1]))]

\* _create_artifact_dir with its guard inverted: mkdir only where the
\* directory is already there
CreateArtifactDir_InvertedGuard(d, f, path) ==
  LET parentdir == OsPathDirname(path)
  IN IF OsPathIsdir(d, parentdir)
     THEN LET r == PathMkdir(d, f, parentdir, TRUE, TRUE)
          IN [exc |-> r.exc, dirs |-> r.dirs, files |-> f]
     ELSE [exc |-> NoExc, dirs |-> d, files |-> f]

\* _create_artifact_dir without the guard and with exist_ok = False
CreateArtifactDir_NotIdempotent(d, f, path) ==
  LET r == PathMkdir(d, f, OsPathDirname(path), TRUE, FALSE)
  IN [exc |-> r.exc, dirs |-> r.dirs, files |-> f]

\* NapistuConfig._create_artifact_dir
CreateArtifactDir(d, f, path) ==
  LET parentdir == OsPathDirname(path)
  IN IF ~OsPathIsdir(d, parentdir)
     THEN LET r == PathMkdir(d, f, parentdir, TRUE, TRUE)
          IN [exc |-> r.exc, dirs |-> r.dirs, files |-> f]
     ELSE [exc |-> NoExc, dirs |-> d, files |-> f]

RECURSIVE CreateArtifactDirs(_, _, _)
\* the loop "for art in self.artifacts.values()" of __init__, stopping at
\* the first exception
CreateArtifactDirs(d, f, arts) ==
  IF arts = <<>> THEN [exc |-> NoExc, dirs |-> d, files |-> f]
  ELSE LET r == CreateArtifactDir(d, f, Head(arts).v)
       IN IF r.exc # NoExc THEN r
          ELSE CreateArtifactDirs(r.dirs, r.files, Tail(arts))

\* the dict comprehension over related_workflows in __init__: the first
\* name that raises ends it
FormatRelated(self, related_workflows) ==
  LET failing == {i \in 1..Len(related_workflows) :
                    FormatWorkflowArtifacts(self, related_workflows[i]).exc # NoExc}
  IN IF failing # {}
     THEN LET i == CHOOSE x \in failing : \A y \in failing : x <= y
              r == FormatWorkflowArtifacts(self, related_workflows[i])
          IN [exc |-> r.exc, msg |-> r.msg, value |-> <<>>]
     ELSE [exc |-> NoExc, msg |-> <<>>,
           value |-> [x \in {related_workflows[i] : i \in 1..Len(related_workflows)} |->
                        FormatWorkflowArtifacts(self, x).value]]

Failed(e, m, d, f) == [exc |-> e, msg |-> m, self |-> <<>>, dirs |-> d, files |-> f]

RECURSIVE CreateRelatedDirs(_, _, _, _)
\* artifact directories for every related workflow in turn
CreateRelatedDirs(d, f, self0, names) ==
  IF names = <<>> THEN [exc |-> NoExc, dirs |-> d, files |-> f]
  ELSE LET arts == FormatWorkflowArtifacts(self0, Head(names)).value
           r == IF arts = None THEN [exc |-> NoExc, dirs |-> d, files |-> f]
                ELSE CreateArtifactDirs(d, f, arts[1])
       IN IF r.exc # NoExc THEN r
          ELSE CreateRelatedDirs(r.dirs, r.files, self0, Tail(names))

\* __init__ creating artifact directories for the related workflows as well
InitWorkflows_RelatedDirs(d, f, self0, workflow, related_workflows) ==
  LET arts == FormatWorkflowArtifacts(self0, workflow)
  IN IF arts.exc # NoExc THEN Failed(arts.exc, arts.msg, d, f)
     ELSE
     LET made == IF arts.value # None
                 THEN CreateArtifactDirs(d, f, arts.value[1])
                 ELSE [exc |-> NoExc, dirs |-> d, files |-> f]
     IN IF made.exc # NoExc THEN Failed(made.exc, <<>>, made.dirs, made.files)
        ELSE
        LET rel == IF related_workflows # None
                   THEN FormatRelated(self0, related_workflows[1])
                   ELSE [exc |-> NoExc, msg |-> <<>>, value |-> None]
        IN IF rel.exc # NoExc
           THEN Failed(rel.exc, rel.msg, made.dirs, made.files)
           ELSE
           LET more == IF related_workflows # None
                       THEN CreateRelatedDirs(made.dirs, made.files, self0,
                                              related_workflows[1])
                       ELSE made
           IN IF more.exc # NoExc THEN Failed(more.exc, <<>>, more.dirs, more.files)
              ELSE [exc |-> NoExc, msg |-> <<>>,
                    self |-> [workflow |-> self0.workflow,
                              config_dict |-> self0.config_dict,
                              species |-> self0.species,
                              overwrite |-> self0.overwrite,
                              data_dir |-> self0.data_dir,
                              species_data_dir |-> self0.species_data_dir,
                              artifacts |-> arts.value,
                              related |-> IF related_workflows # None
                                          THEN Some(rel.value) ELSE None],
                    dirs |-> more.dirs, files |-> more.files]

\* __init__ resolving the related workflows before it creates the primary
\* workflow's artifact directories
InitWorkflows_RelatedFirst(d, f, self0, workflow, related_workflows) ==
  LET arts == FormatWorkflowArtifacts(self0, workflow)
  IN IF arts.exc # NoExc THEN Failed(arts.exc, arts.msg, d, f)
     ELSE
     LET rel == IF related_workflows # None
                THEN FormatRelated(self0, related_workflows[1])
                ELSE [exc |-> NoExc, msg |-> <<>>, value |-> None]
     IN IF rel.exc # NoExc THEN Failed(rel.exc, rel.msg, d, f)
        ELSE
        LET made == IF arts.value # None
                    THEN CreateArtifactDirs(d, f, arts.value[1])
                    ELSE [exc |-> NoExc, dirs |-> d, files |-> f]
        IN IF made.exc # NoExc THEN Failed(made.exc, <<>>, made.dirs, made.files)
           ELSE [exc |-> NoExc, msg |-> <<>>,
                 self |-> [workflow |-> self0.workflow,
                           config_dict |-> self0.config_dict,
                           species |-> self0.species,
                           overwrite |-> self0.overwrite,
                           data_dir |-> self0.data_dir,
                           species_data_dir |-> self0.species_data_dir,
                           artifacts |-> arts.value,
                           related |-> IF related_workflows # None
                                       THEN Some(rel.value) ELSE None],
                 dirs |-> made.dirs, files |-> made.files]

\* NapistuConfig.__init__, from the resolution of the primary workflow's
\* artifacts to the end: self0 holds the attributes set so far
InitWorkflows(d, f, self0, workflow, related_workflows) ==
  LET arts == FormatWorkflowArtifacts(self0, workflow)
  IN IF arts.exc # NoExc THEN Failed(arts.exc, arts.msg, d, f)
     ELSE
     LET made == IF arts.value # None
                 THEN CreateArtifactDirs(d, f, arts.value[1])
                 ELSE [exc |-> NoExc, dirs |-> d, files |-> f]
     IN IF made.exc # NoExc THEN Failed(made.exc, <<>>, made.dirs, made.files)
        ELSE
        LET rel == IF related_workflows # None
                   THEN FormatRelated(self0, related_workflows[1])
                   ELSE [exc |-> NoExc, msg |-> <<>>, value |-> None]
        IN IF rel.exc # NoExc
           THEN Failed(rel.exc, rel.msg, made.dirs, made.files)
           ELSE [exc |-> NoExc, msg |-> <<>>,
                 self |-> [workflow |-> self0.workflow,
                           config_dict |-> self0.config_dict,
                           species |-> self0.species,
                           overwrite |-> self0.overwrite,
                           data_dir |-> self0.data_dir,
                           species_data_dir |-> self0.species_data_dir,
                           artifacts |-> arts.value,
                           related |-> IF related_workflows # None
                                       THEN Some(rel.value) ELSE None],
                 dirs |-> made.dirs, files |-> made.files]

\* NapistuConfig.__init__, up to the attributes derived from the validated
\* configuration
NapistuConfigInit(d, f, config_path, workflow, related_workflows) ==
  LET read == ReadConfig(f, config_path)
  IN IF read.exc # NoExc THEN Failed(read.exc, <<>>, d, f)
     ELSE
     LET validated == NapistuConfigValidator(read.config)
     IN IF validated.exc # NoExc THEN Failed(validated.exc, <<>>, d, f)
        ELSE
        LET config_validated == validated.value
            data_dir == OsPathExpanduser(config_validated.global_vars.data_dir)
        IN InitWorkflows(d, f,
             [workflow |-> workflow,
              config_dict |-> config_validated,
              species |-> config_validated.global_vars.species,
              overwrite |-> config_validated.global_vars.overwrite,
              data_dir |-> data_dir,
              species_data_dir |->
                OsPathJoin(data_dir,
                           ReSub(" ", "_", config_validated.global_vars.species))],
             workflow, related_workflows)

---------------------------------------------------------------------------
(* Deployment to Posit Connect *)

ServerArgs == {"prod", "dev", "qa"}

GoodSettings ==
  [prod |-> [url |-> <<"https://p">>, pat_secret_name |-> "PAT_P"],
   dev |-> [url |-> <<"https://d">>, pat_secret_name |-> "PAT_D"]]

BadSettings ==
  [prod |-> [url |-> <<"https://p">>, pat_secret_name |-> "PAT_P"],
   dev |-> [url |-> <<"https://d">>]]

SettingsArgs == {GoodSettings, BadSettings}

VenvArgs == {None, Some(<<".venv">>)}

Environments ==
  {[v \in {"PAT_P"} |-> <<"tokP">>],
   [v \in {"PAT_P", "PAT_D"} |-> IF v = "PAT_P" THEN <<"tokP">> ELSE <<"tokD">>]}

RECURSIVE StrJoin(_, _)
\* sep.join(list)
StrJoin(sep, list) ==
  IF list = <<>> THEN <<>>
  ELSE IF Len(list) = 1 THEN list[1]
  ELSE list[1] \o sep \o StrJoin(sep, Tail(list))

\* f"'{x}'"
Quoted(x) == <<"'">> \o x \o <<"'">>

\* read_environmental_variable without the membership test: an unset
\* variable reads as the empty string
ReadEnvironmentalVariable_Unchecked(e, envvar) ==
  [exc |-> NoExc, value |-> IF envvar \in DOMAIN e THEN e[envvar] ELSE <<>>]

\* read_environmental_variable
ReadEnvironmentalVariable(e, envvar) ==
  IF envvar \notin DOMAIN e
  THEN [exc |-> Raise("ValueError", "read_environmental_variable"), value |-> <<>>]
  ELSE [exc |-> NoExc, value |-> e[envvar]]

\* read_connect_settings looking up the credential of every configured
\* server before it tests server_name
ReadConnectSettings_EnvFirst(e, server_name, connect_servers_settings) ==
  LET validated == ConnectConfigValidator(connect_servers_settings)
  IN IF validated.exc # NoExc
     THEN [exc |-> validated.exc, msg |-> <<>>, envread |-> <<>>, value |-> <<>>]
     ELSE
     LET connect_configs == validated.value
         unset == {n \in DOMAIN connect_configs :
                     connect_configs[n].pat_secret_name \notin DOMAIN e}
     IN IF unset # {}
        THEN LET n == CHOOSE x \in unset : TRUE
             IN [exc |-> Raise("ValueError", "read_environmental_variable"),
                 msg |-> [envvar |-> connect_configs[n].pat_secret_name],
                 envread |-> <<connect_configs[n].pat_secret_name>>,
                 value |-> <<>>]
        ELSE IF server_name \notin DOMAIN connect_configs
        THEN [exc |-> Raise("ValueError", "read_connect_settings"),
              msg |-> [server_name |-> server_name, named |-> DOMAIN connect_configs],
              envread |-> <<connect_configs[CHOOSE x \in DOMAIN connect_configs : TRUE].pat_secret_name>>,
              value |-> <<>>]
        ELSE [exc |-> NoExc, msg |-> <<>>,
              envread |-> <<connect_configs[server_name].pat_secret_name>>,
              value |-> [url |-> connect_configs[server_name].url,
                         pat_secret_name |-> connect_configs[server_name].pat_secret_name,
                         connect_pat |-> e[connect_configs[server_name].pat_secret_name]]]

\* read_connect_settings: envread lists the environment variables looked up
ReadConnectSettings(e, server_name, connect_servers_settings) ==
  LET validated == ConnectConfigValidator(connect_servers_settings)
  IN IF validated.exc # NoExc
     THEN [exc |-> validated.exc, msg |-> <<>>, envread |-> <<>>, value |-> <<>>]
     ELSE
     LET connect_configs == validated.value
     IN IF server_name \notin DOMAIN connect_configs
        THEN [exc |-> Raise("ValueError", "read_connect_settings"),
              msg |-> [server_name |-> server_name, named |-> DOMAIN connect_configs],
              envread |-> <<>>,
              value |-> <<>>]
        ELSE
        LET connect_settings == connect_configs[server_name]
            pat == ReadEnvironmentalVariable(e, connect_settings.pat_secret_name)
        IN IF pat.exc # NoExc
           THEN [exc |-> pat.exc,
                 msg |-> [envvar |-> connect_settings.pat_secret_name],
                 envread |-> <<connect_settings.pat_secret_name>>,
                 value |-> <<>>]
           ELSE [exc |-> NoExc, msg |-> <<>>,
                 envread |-> <<connect_settings.pat_secret_name>>,
                 value |-> [url |-> connect_settings.url,
                            pat_secret_name |-> connect_settings.pat_secret_name,
                            connect_pat |-> pat.value]]

\* the branch on connect_id always taking the "new document" side
PublishMode_AlwaysNew(connect_id, notebook_file) ==
  <<<<"--new">>, notebook_file>>

\* the branch on connect_id in deploy_notebook_connect
PublishMode(connect_id, notebook_file) ==
  IF connect_id = None
  THEN <<<<"--new">>, notebook_file>>
  ELSE <<<<"--app-id">>, connect_id[1], notebook_file>>

\* deploy_notebook_connect: cmds are the strings handed to subprocess.call
DeployNotebookConnect(e, notebook_file, notebook_title, server_name, connect_servers_settings, asset_type, connect_id, venv_path) ==
  LET read == ReadConnectSettings(e, server_name, connect_servers_settings)
  IN IF read.exc # NoExc
     THEN [exc |-> read.exc, msg |-> read.msg, envread |-> read.envread, cmds |-> <<>>]
     ELSE
     LET connect_settings == read.value
         base == <<<<"rsconnect">>, <<"deploy">>, asset_type,
                   <<"--title">>, Quoted(notebook_title),
                   <<"--server">>, Quoted(connect_settings.url),
                   <<"--api-key">>, Quoted(connect_settings.connect_pat)>>
         arglist == base \o PublishMode(connect_id, notebook_file)
         full == IF venv_path # None
                 THEN <<<<"source">>, venv_path[1] \o <<"/bin/activate">>, <<"&&">>>>
                      \o arglist
                 ELSE arglist
     IN [exc |-> NoExc, msg |-> <<>>, envread |-> read.envread,
         cmds |-> <<StrJoin(<<" ">>, full)>>]

\* NapistuConfig.deploy
NapistuConfigDeploy(e, self, server_name, connect_servers_settings, venv_path) ==
  LET workflow_settings == self.config_dict.workflows[self.workflow]
  IN DeployNotebookConnect(e, workflow_settings.name, workflow_settings.title,
                           server_name, connect_servers_settings, <<"quarto">>,
                           workflow_settings.connect_id, venv_path)

---------------------------------------------------------------------------
(* State machine *)

BaseDirs == {P_root, P_home, P_cfgdir}

\* the filesystems a session can start from: a fresh home, and a data
\* directory in which regular files already sit where directories are wanted
Filesystems ==
  {[dirs |-> BaseDirs, files |-> ConfigFilesOnDisk],
   [dirs |-> BaseDirs \cup {P_data, P_species},
    files |-> ConfigFilesOnDisk \cup {P_w, P_r}]}

RECURSIVE SeqsUpTo(_, _)
SeqsUpTo(S, n) ==
  IF n = 0 THEN {<<>>}
  ELSE LET shorter == SeqsUpTo(S, n - 1)
       IN shorter \cup {Append(q, x) : q \in shorter, x \in S}

RelatedLists == {None} \cup {Some(q) : q \in SeqsUpTo(RelatedArgs, MaxRelated)}

\* constructor calls: every workflow and related list against the valid
\* file, and one known and one unknown workflow against each other file
ConstructArgs ==
  {<<P_tutorial, w, r>> : w \in WorkflowArgs, r \in RelatedLists}
  \cup {<<p, w, None>> : p \in ConfigPaths \ {P_tutorial}, w \in {"wfA", "wfX"}}
  \cup {<<p, "wfA", Some(<<"wfX">>)>> : p \in ConfigPaths \ {P_tutorial}}

Init ==
  /\ \E fs \in Filesystems : dirs = fs.dirs /\ files = fs.files
  /\ env \in Environments
  /\ obj = None
  /\ last = [op |-> "start", args |-> <<>>, exc |-> NoExc, msg |-> <<>>,
             dirsBefore |-> dirs, filesBefore |-> files,
             envread |-> <<>>, cmds |-> <<>>, result |-> None, rerun |-> FALSE]

\* cfg = NapistuConfig(config_path, workflow, related_workflows)
Construct(config_path, workflow, related_workflows) ==
  \E r \in {NapistuConfigInit(dirs, files, config_path, workflow, related_workflows)} :
  \E args \in {[config_path |-> config_path, workflow |-> workflow,
                related_workflows |-> related_workflows]} :
     /\ dirs' = r.dirs
     /\ files' = r.files
     /\ obj' = IF r.exc = NoExc THEN Some(r.self) ELSE obj
     /\ last' = [op |-> "Construct", args |-> args, exc |-> r.exc, msg |-> r.msg,
                 dirsBefore |-> dirs, filesBefore |-> files,
                 envread |-> <<>>, cmds |-> <<>>, result |-> None,
                 rerun |-> /\ last.op = "Construct"
                           /\ last.exc = NoExc
                           /\ last.args = args]
     /\ UNCHANGED env

\* cfg._format_workflow_artifacts(workflow)
ResolveArtifacts(workflow) ==
  /\ obj # None
  /\ \E r \in {FormatWorkflowArtifacts(obj[1], workflow)} :
       last' = [op |-> "ResolveArtifacts", args |-> [workflow |-> workflow],
                exc |-> r.exc, msg |-> r.msg,
                dirsBefore |-> dirs, filesBefore |-> files,
                envread |-> <<>>, cmds |-> <<>>, result |-> r.value, rerun |-> FALSE]
  /\ UNCHANGED <<dirs, files, env, obj>>

\* cfg.deploy(server_name, connect_servers_settings, venv_path)
Deploy(server_name, connect_servers_settings, venv_path) ==
  /\ obj # None
  /\ \E r \in {NapistuConfigDeploy(env, obj[1], server_name,
                                   connect_servers_settings, venv_path)} :
       last' = [op |-> "Deploy",
                args |-> [server_name |-> server_name,
                          connect_servers_settings |-> connect_servers_settings,
                          venv_path |-> venv_path],
                exc |-> r.exc, msg |-> r.msg,
                dirsBefore |-> dirs, filesBefore |-> files,
                envread |-> r.envread, cmds |-> r.cmds, result |-> None,
                rerun |-> FALSE]
  /\ UNCHANGED <<dirs, files, env, obj>>

Next ==
  \/ \E a \in ConstructArgs : Construct(a[1], a[2], a[3])
  \/ \E w \in WorkflowArgs : ResolveArtifacts(w)
  \/ \E s \in ServerArgs, c \in SettingsArgs, v \in VenvArgs : Deploy(s, c, v)

Spec == Init /\ [][Next]_vars

---------------------------------------------------------------------------
(* The error kinds of the specification, as the code raises them *)

NotFoundError == Raise("FileNotFoundError", "_read_config")
ParseError == Raise("YAMLError", "safe_load")
SchemaValidationError == Raise("ValidationError", "_NapistuConfigValidator")
UnknownWorkflowError == Raise("ValueError", "_format_workflow_artifacts")
UnknownServerError == Raise("ValueError", "read_connect_settings")
MissingCredentialError == Raise("ValueError", "read_environmental_variable")

SchemaValid(settings) ==
  \A n \in DOMAIN settings : ServerFields \subseteq DOMAIN settings[n]

\* the workflow entry of the object that Deploy and ResolveArtifacts act on
CurrentWorkflow == obj[1].config_dict.workflows[obj[1].workflow]

IsSuffix(suffix, s) ==
  /\ Len(suffix) <= Len(s)
  /\ SubSeq(s, Len(s) - Len(suffix) + 1, Len(s)) = suffix

Occurs(piece, s) == \E i \in 1..Len(s) : s[i] = piece

---------------------------------------------------------------------------
(* Deploy *)

DeployedTo(server) ==
  /\ last.op = "Deploy"
  /\ SchemaValid(last.args.connect_servers_settings)
  /\ last.args.server_name = server

\* C1: a Deploy whose selected server names an environment variable that is
\* unset fails with MissingCredentialError and hands no command to the shell.
C1_MissingCredentialNoCall ==
  \A server \in ServerArgs :
    (/\ DeployedTo(server)
     /\ server \in DOMAIN last.args.connect_servers_settings
     /\ last.args.connect_servers_settings[server].pat_secret_name \notin DOMAIN env)
    => /\ last.exc = MissingCredentialError
       /\ last.msg.envvar = last.args.connect_servers_settings[server].pat_secret_name
       /\ last.cmds = <<>>

C1_Witness ==
  /\ DeployedTo("dev")
  /\ "PAT_D" \notin DOMAIN env
  /\ last.exc = MissingCredentialError

\* C2: a Deploy whose server_name is no key of schema-valid settings fails
\* with UnknownServerError, whatever the environment holds, without having
\* looked up any environment variable and without any command issued.
C2_UnknownServerFirst ==
  \A server \in ServerArgs :
    (/\ DeployedTo(server)
     /\ server \notin DOMAIN last.args.connect_servers_settings)
    => /\ last.exc = UnknownServerError
       /\ last.msg.server_name = server
       /\ last.envread = <<>>
       /\ last.cmds = <<>>

C2_Witness ==
  /\ DeployedTo("qa")
  /\ last.exc = UnknownServerError

\* C8: a Deploy that reaches the publisher issues one command; it ends with
\* "--new <file>" exactly when the workflow's connect_id is None and with
\* "--app-id <connect_id> <file>" exactly when it is not, and exactly one
\* of the two mode flags occurs in it.
C8_PublishMode ==
  (last.op = "Deploy" /\ last.exc = NoExc)
  => /\ Len(last.cmds) = 1
     /\ LET cmd == last.cmds[1]
            file == CurrentWorkflow.name
            id == CurrentWorkflow.connect_id
            asNew == IsSuffix(<<" ", "--new", " ">> \o file, cmd)
            asUpdate == /\ id # None
                        /\ IsSuffix(<<" ", "--app-id", " ">> \o id[1] \o <<" ">> \o file, cmd)
        IN /\ asNew <=> id = None
           /\ asUpdate <=> id # None
           /\ Occurs("--new", cmd) <=> ~Occurs("--app-id", cmd)
           /\ Occurs("--new", cmd) <=> id = None

C8_WitnessNew ==
  /\ last.op = "Deploy" /\ last.exc = NoExc
  /\ CurrentWorkflow.connect_id = None

C8_WitnessUpdate ==
  /\ last.op = "Deploy" /\ last.exc = NoExc
  /\ CurrentWorkflow.connect_id # None

C8_Witness == C8_WitnessUpdate /\ last.args.venv_path # None

---------------------------------------------------------------------------
(* ResolveArtifacts *)

\* C5: resolving a workflow of the configuration gives None when its
\* artifacts are None, and otherwise one entry per artifact key, in the same
\* order, whose path is the base directory, a separator and the artifact's
\* relative path; the base directory is species_data_dir for a
\* species-specific workflow and data_dir for any other.
C5_ResolvedPaths ==
  (/\ last.op = "ResolveArtifacts"
   /\ last.args.workflow \in DOMAIN obj[1].config_dict.workflows)
  => LET wf == obj[1].config_dict.workflows[last.args.workflow]
         base_dir == IF wf.species_specific THEN obj[1].species_data_dir
                     ELSE obj[1].data_dir
     IN /\ last.exc = NoExc
        /\ wf.artifacts = None => last.result = None
        /\ wf.artifacts # None =>
             /\ last.result # None
             /\ Len(last.result[1]) = Len(wf.artifacts[1])
             /\ \A i \in 1..Len(wf.artifacts[1]) :
                  /\ last.result[1][i].k = wf.artifacts[1][i].k
                  /\ last.result[1][i].v = base_dir \o <<"/">> \o wf.artifacts[1][i].v
        /\ obj[1].data_dir = P_data
        /\ obj[1].species_data_dir = P_species

C5_WitnessSpecies ==
  /\ last.op = "ResolveArtifacts"
  /\ last.args.workflow = "wfA"
  /\ last.result # None

C5_WitnessNone ==
  /\ last.op = "ResolveArtifacts"
  /\ last.args.workflow = "wfC"
  /\ last.result = None

C5_Witness ==
  /\ last.op = "ResolveArtifacts"
  /\ last.args.workflow = "wfB"
  /\ last.result # None
  /\ last.result[1][1].v = P_r \o <<"/", "q", "/", "s">>

---------------------------------------------------------------------------
(* Construct *)

Constructed == last.op = "Construct"

ConstructedOk == Constructed /\ last.exc = NoExc

\* the workflow mapping of the configuration file the last Construct read
ValidConfig == Constructed /\ last.args.config_path = P_tutorial

Named == DOMAIN TutorialDoc.workflows

PrimaryKnown == last.args.workflow \in Named

RelatedNames ==
  IF last.args.related_workflows = None THEN {}
  ELSE {last.args.related_workflows[1][i] :
          i \in 1..Len(last.args.related_workflows[1])}

RelatedKnown == RelatedNames \subseteq Named

FirstUnknownRelated ==
  LET q == last.args.related_workflows[1]
      i == CHOOSE x \in 1..Len(q) :
             /\ q[x] \notin Named
             /\ \A y \in 1..(x - 1) : q[y] \in Named
  IN q[i]

\* the directories the artifacts of each workflow of the tutorial file live in
ArtifactParents(workflow) ==
  CASE workflow = "wfA" -> {P_species \o <<"/", "x">>, P_w}
    [] workflow = "wfB" -> {P_r \o <<"/", "q">>}
    [] OTHER -> {}

WithAncestors(paths) == paths \cup UNION {Ancestors(p) : p \in paths}

Created == dirs \ last.dirsBefore

PrimaryMissing == WithAncestors(ArtifactParents(last.args.workflow)) \ last.dirsBefore

C3_WitnessPrimary ==
  /\ ValidConfig
  /\ ~PrimaryKnown
  /\ last.exc = UnknownWorkflowError

\* C4 as stated: Construct on an existing file of malformed YAML fails with
\* ParseError, raised where the YAML is read.
C4_ParseError ==
  (Constructed /\ last.args.config_path = P_malformed) => last.exc = ParseError

\* C6: after a successful Construct the parent directory of every resolved
\* artifact of the primary workflow is a directory, no artifact path has
\* come into existence, and the set of regular files is as it was.
C6_ParentsExist ==
  ConstructedOk =>
    /\ obj[1].workflow = last.args.workflow
    /\ ArtifactParents(last.args.workflow) \subseteq dirs
    /\ obj[1].artifacts # None =>
         \A i \in 1..Len(obj[1].artifacts[1]) :
           LET art == obj[1].artifacts[1][i].v
           IN /\ OsPathDirname(art) \in dirs
              /\ OsPathDirname(art) \in ArtifactParents(last.args.workflow)
              /\ art \notin dirs \cup files
    /\ files = last.filesBefore

C6_Witness ==
  /\ ConstructedOk
  /\ last.args.workflow = "wfB"
  /\ P_r \notin last.dirsBefore
  /\ P_r \o <<"/", "q">> \in dirs

\* C7: the directories a Construct creates are parents, or missing ancestors
\* of parents, of the primary workflow's artifacts, whatever related
\* workflows are named; when the creation of the primary workflow's
\* directories is not cut short by an error they are exactly those
\* directories, and no existing directory disappears.
C7_OnlyPrimaryDirs ==
  Constructed =>
    /\ last.dirsBefore \subseteq dirs
    /\ Created \subseteq (IF ValidConfig THEN PrimaryMissing ELSE {})
    /\ (ValidConfig /\ last.exc \in {NoExc, UnknownWorkflowError}) =>
         Created = (IF PrimaryKnown THEN PrimaryMissing ELSE {})

C7_Witness ==
  /\ ConstructedOk
  /\ last.args.workflow = "wfA"
  /\ "wfB" \in RelatedNames
  /\ Created # {}
  /\ P_r \notin dirs

C9_WitnessEarly ==
  /\ ValidConfig
  /\ last.exc = UnknownWorkflowError
  /\ ~PrimaryKnown

\* C10: a Construct repeated with the arguments of the successful Construct
\* just before it, on the same configuration file and the filesystem that
\* one left, succeeds and leaves directories and files as they are.
C10_Idempotent ==
  last.rerun =>
    /\ last.exc = NoExc
    /\ dirs = last.dirsBefore
    /\ files = last.filesBefore

C10_Witness ==
  /\ last.rerun
  /\ last.args.workflow = "wfA"
  /\ ArtifactParents("wfA") \subseteq last.dirsBefore

====
